---- MODULE Spec2Model ----
(***************************************************************************)
(* The stage-based task queue of prm-data-enrich: the task_queue table,    *)
(* the person_result_data flags the stage handlers write, the worker loop  *)
(* of utils/task_worker.py and the queue populator of                      *)
(* services/fill_task_queue.py.                                            *)
(*                                                                         *)
(* Every step of the model is one database statement (or one handler       *)
(* call).  The two statements whose concurrency the design depends on are  *)
(* split in the two phases PostgreSQL gives them under READ COMMITTED:     *)
(*   - the claim UPDATE first locks the row its sub-select returns         *)
(*     (FOR UPDATE SKIP LOCKED) and then updates it;                       *)
(*   - INSERT ... SELECT ... WHERE NOT EXISTS first evaluates its SELECT   *)
(*     on the rows committed so far and then writes the selected rows.     *)
(***************************************************************************)
EXTENDS Integers, Sequences, FiniteSets, TLC

(* ------------------------------ bounds -------------------------------- *)
\* rows of person_result_data
NumPersons == 2
\* worker_loop coroutines started against the queue
NumWorkers == 2
\* operations started in one run: calls of fill_all / add_for_person made
\* from outside the workers, and iterations of "while True" in worker_loop
\* that claim a task
MaxOps == 4
\* exceptions raised by the collaborators of the workers (a stage handler's
\* external call, the connection add_for_person opens), outages of the
\* database the workers' statements run into, and handler calls that never
\* return
MaxFaults == 1
\* calls of fill_all in a run of the whole chain
MaxFills == 2
\* calls of add_for_person made from outside the workers on a table of
\* persons found as earlier runs left it
MaxAdds == 2

Persons == 1..NumPersons
Workers == 1..NumWorkers

(* --------------------------- program constants ------------------------ *)
NULL == "NULL"
\* a task id no row has (Python None for "no task")
NoTask == 0

\* config.MAX_RETRIES
MAX_RETRIES == 3

\* config.TASK_TYPES (stage registry; the chain of spec section 3)
TASK_TYPES == <<"prellm", "llm", "perp", "postcheck1", "postcheck2">>

TaskTypeSet == {TASK_TYPES[i] : i \in 1..Len(TASK_TYPES)}

\* config.TASK_FLAGS: the completion flag of a stage
TASK_FLAGS == [t \in TaskTypeSet |-> "flag_" \o t]

\* config.TASK_RULES: the eligibility predicate of a stage, over one row r
\* of person_result_data.  SQL three-valued logic: "flag = TRUE" is not
\* satisfied by NULL.
TASK_RULES(t, r) ==
    CASE t = "prellm"     -> TRUE
      [] t = "llm"        -> r.flag_prellm = "TRUE"
      [] t = "perp"       -> r.flag_llm = "TRUE"
      [] t = "postcheck1" -> r.flag_perp = "TRUE"
      [] t = "postcheck2" -> r.flag_postcheck1 = "TRUE"

\* stage names a caller may pass: the registered ones and "photos", which the
\* code names but has disabled
StageNames == TaskTypeSet \cup {"photos"}

\* mutant of Registered: add_for_person does not check the stage name
RegisteredAlways(t) == TRUE

\* add_for_person: "task_type not in config.TASK_TYPES" raises ValueError
Registered(t) == t \in TaskTypeSet

\* _insert_task: config.TASK_RULES[task_type] raises KeyError for a stage
\* with no rule
HasRule(t) == t \in TaskTypeSet

\* utils/task_worker.py HANDLERS: the stage names with a handler
HANDLERS == {"prellm", "llm", "perp", "postcheck1", "postcheck2"}

\* mutant of NEXT_TASK: the commented-out successor of postcheck2 is active
NEXT_TASK_photos ==
    [t \in {"prellm", "llm", "perp", "postcheck1", "postcheck2"} |->
        CASE t = "prellm"     -> "llm"
          [] t = "llm"        -> "perp"
          [] t = "perp"       -> "postcheck1"
          [] t = "postcheck1" -> "postcheck2"
          [] t = "postcheck2" -> "photos"]

\* utils/task_worker.py NEXT_TASK (None is NULL)
NEXT_TASK ==
    [t \in HANDLERS |->
        CASE t = "prellm"     -> "llm"
          [] t = "llm"        -> "perp"
          [] t = "perp"       -> "postcheck1"
          [] t = "postcheck1" -> "postcheck2"
          [] t = "postcheck2" -> NULL]

\* texts str(e) of an exception raised by a stage collaborator
ErrTexts == {"", "handler error"}

VARIABLES
    persons,   \* person_result_data: person_id -> flags
    tasks,     \* task_queue: sequence of rows, row i has id i
    workers,   \* worker_loop coroutine w: position and locals
    populator, \* the caller of fill_all / add_for_person: position and locals
    last,      \* the populator's last completed, undisturbed call
    faults     \* exceptions the collaborators have raised so far

vars == <<persons, tasks, workers, populator, last, faults>>

(* ------------------------------ rows ---------------------------------- *)
\* a flag column is NULL, "TRUE" or "FALSE"
\* DROP_AND_CREATE_RESULT_TABLE_QUERY: every flag of a new row is NULL
NewPerson ==
    [flag_prellm |-> NULL, flag_llm |-> NULL, valid |-> NULL,
     flag_perp |-> NULL, flag_postcheck1 |-> NULL, flag_postcheck2 |-> NULL,
     done |-> NULL]

\* mutant of NewTask: started_at has DEFAULT NOW() as created_at has
NewTaskStarted(id, p, t, at, by) ==
    [id |-> id, person_id |-> p, task_type |-> t, status |-> "pending",
     created_at |-> at, started_at |-> "SET", finished_at |-> NULL,
     retries |-> 0, last_error |-> NULL,
     claims |-> 0, outcome |-> NULL, raised |-> NULL, creator |-> by]

\* A row of task_queue as INSERT creates it (column defaults of
\* DROP_AND_CREATE_TASK_QUEUE_QUERY).  started_at / finished_at are NULL or
\* "SET"; created_at is the logical time of the inserting statement.
\* claims, outcome, raised and creator are history fields, no columns: how
\* often the claim returned the row, what its handler call ended with, the
\* text of the exception it raised, and the id of the task whose worker
\* enqueued the row (NoTask: the populator did).
NewTask(id, p, t, at, by) ==
    [id |-> id, person_id |-> p, task_type |-> t, status |-> "pending",
     created_at |-> at, started_at |-> NULL, finished_at |-> NULL,
     retries |-> 0, last_error |-> NULL,
     claims |-> 0, outcome |-> NULL, raised |-> NULL, creator |-> by]

Ids(q) == 1..Len(q)

\* the set ps as a sequence in ascending order (scan order of the table)
RECURSIVE Ascending(_)
Ascending(ps) ==
    IF ps = {} THEN <<>>
    ELSE LET m == CHOOSE x \in ps : \A y \in ps : x <= y
         IN  <<m>> \o Ascending(ps \ {m})

\* mutant of InsertRows: a unique index on (person_id, task_type) keeps a
\* second row of a pair out
InsertRowsUnique(q, ps, t, at, by) ==
    LET order == Ascending({p \in ps : \A i \in Ids(q) :
                               ~(q[i].person_id = p /\ q[i].task_type = t)})
    IN  q \o [k \in 1..Len(order) |-> NewTask(Len(q) + k, order[k], t, at, by)]

\* INSERT INTO task_queue (person_id, task_type, status) SELECT ..., one row
\* per selected person; SERIAL ids continue the sequence
InsertRows(q, ps, t, at, by) ==
    LET order == Ascending(ps)
    IN  q \o [k \in 1..Len(order) |-> NewTask(Len(q) + k, order[k], t, at, by)]

(* ----------------------------- queries -------------------------------- *)
\* mutant of TaskExists: the guard looks at active rows only
TaskExistsActive(q, p, t) ==
    \E i \in Ids(q) :
        /\ q[i].person_id = p /\ q[i].task_type = t
        /\ q[i].status \in {"pending", "in_progress"}

\* mutant of TaskExists: the sub-select of NOT EXISTS never finds a row
TaskExistsNone(q, p, t) == FALSE

\* SELECT 1 FROM task_queue WHERE person_id = p AND task_type = t
TaskExists(q, p, t) ==
    \E i \in Ids(q) : q[i].person_id = p /\ q[i].task_type = t

\* mutant of InsertTaskSelect: no NOT EXISTS guard
InsertTaskSelectNoGuard(q, ps, p, t) ==
    IF p \in DOMAIN ps /\ TASK_RULES(t, ps[p]) THEN {p} ELSE {}

\* mutant of InsertTaskSelect: the stage's completion flag is tested as in
\* _insert_tasks_bulk
InsertTaskSelectFlag(q, ps, p, t) ==
    IF /\ p \in DOMAIN ps
       /\ TASK_RULES(t, ps[p])
       /\ ps[p][TASK_FLAGS[t]] \in {NULL, "FALSE"}
       /\ ~TaskExists(q, p, t)
    THEN {p} ELSE {}

\* the SELECT of TaskQueue._insert_task: the person row, if it satisfies the
\* stage's rule and no task of that person and type exists
InsertTaskSelect(q, ps, p, t) ==
    IF /\ p \in DOMAIN ps
       /\ TASK_RULES(t, ps[p])
       /\ ~TaskExists(q, p, t)
    THEN {p} ELSE {}

\* mutant of BulkSelect: no NOT EXISTS guard
BulkSelectNoGuard(q, ps, t) ==
    {p \in DOMAIN ps :
        /\ TASK_RULES(t, ps[p])
        /\ ps[p][TASK_FLAGS[t]] \in {NULL, "FALSE"}}

\* mutant of BulkSelect: the stage's rule is not applied
BulkSelectNoRule(q, ps, t) ==
    {p \in DOMAIN ps :
        /\ ps[p][TASK_FLAGS[t]] \in {NULL, "FALSE"}
        /\ \A i \in Ids(q) : ~(q[i].person_id = p /\ q[i].task_type = t)}

\* the SELECT of TaskQueue._insert_tasks_bulk (count query and insert query
\* have the same WHERE clause)
BulkSelect(q, ps, t) ==
    {p \in DOMAIN ps :
        /\ TASK_RULES(t, ps[p])
        /\ ps[p][TASK_FLAGS[t]] \in {NULL, "FALSE"}
        /\ ~TaskExists(q, p, t)}

\* rows locked by a claim statement that has not written yet
Locked == {workers[w].task : w \in {v \in Workers : workers[v].pc = "locked"}}

\* mutant of ClaimCandidates: a plain sub-select, no FOR UPDATE SKIP LOCKED
ClaimCandidatesNoSkip(q, locked) ==
    LET free == {i \in Ids(q) : q[i].status = "pending"}
    IN  {i \in free : \A j \in free : q[i].created_at <= q[j].created_at}

\* mutant of ClaimCandidates: no WHERE status = 'pending'
ClaimCandidatesAnyStatus(q, locked) ==
    LET free == {i \in Ids(q) : i \notin locked}
    IN  {i \in free : \A j \in free : q[i].created_at <= q[j].created_at}

\* mutant of ClaimCandidates: failed rows are taken again while they have
\* retries left
ClaimCandidatesRetry(q, locked) ==
    LET free == {i \in Ids(q) :
                    /\ \/ q[i].status = "pending"
                       \/ q[i].status = "failed" /\ q[i].retries < MAX_RETRIES
                    /\ i \notin locked}
    IN  {i \in free : \A j \in free : q[i].created_at <= q[j].created_at}

\* mutant of ClaimCandidates: the oldest unlocked row of any status is
\* looked at, and taken if it is pending
ClaimCandidatesHeadOnly(q, locked) ==
    LET free == {i \in Ids(q) : i \notin locked}
    IN  {i \in free : /\ \A j \in free : q[i].created_at <= q[j].created_at
                      /\ q[i].status = "pending"}

\* mutant of ClaimCandidates: no row is taken while a task is in_progress
ClaimCandidatesSerial(q, locked) ==
    LET free == {i \in Ids(q) : q[i].status = "pending" /\ i \notin locked}
    IN  IF \E i \in Ids(q) : q[i].status = "in_progress" THEN {}
        ELSE {i \in free : \A j \in free : q[i].created_at <= q[j].created_at}

\* mutant of ClaimCandidates: ORDER BY created_at DESC
ClaimCandidatesNewest(q, locked) ==
    LET free == {i \in Ids(q) : q[i].status = "pending" /\ i \notin locked}
    IN  {i \in free : \A j \in free : q[i].created_at >= q[j].created_at}

\* the sub-select of TAKE_PENDING_TASK_QUERY: the rows LIMIT 1 may return:
\* pending, not locked by another claim, earliest created_at
ClaimCandidates(q, locked) ==
    LET free == {i \in Ids(q) : q[i].status = "pending" /\ i \notin locked}
    IN  {i \in free : \A j \in free : q[i].created_at <= q[j].created_at}

(* ------------------------------ state --------------------------------- *)
NoCall == [op |-> "none"]

\* skipped and missed are history fields, written when a claim returns no
\* row: the pending rows it skipped because another claim had locked them,
\* and the pending rows nobody had locked.  caught is a history field too:
\* the pass through the loop body the worker has just finished ended in the
\* except branch of worker_loop.  So is failed: the task that pass marked
\* failed after its handler raised.
IdleWorker ==
    [pc |-> "fetch", task |-> NoTask, result |-> NULL,
     sel |-> {}, at |-> 0, skipped |-> {}, missed |-> {}, caught |-> FALSE,
     failed |-> NoTask]

\* mutant of LoopCaught: the exception ends the loop
LoopCaughtExits == [IdleWorker EXCEPT !.pc = "exited", !.caught = TRUE]

\* worker_loop: "except Exception" catches what fetch_pending_task or
\* process_task let through, sleeps 5 seconds and goes on with the next
\* iteration of "while True"
LoopCaught == [IdleWorker EXCEPT !.caught = TRUE]

IdlePopulator ==
    [pc |-> "idle", op |-> "none", person |-> 0, stage |-> NULL, idx |-> 0,
     sel |-> {}, at |-> 0, before |-> <<>>, clean |-> TRUE, rep |-> FALSE,
     calls |-> 0]

Init ==
    /\ persons = [p \in Persons |-> NewPerson]
    /\ tasks = <<>>
    /\ workers = [w \in Workers |-> IdleWorker]
    /\ populator = IdlePopulator
    /\ last = NoCall
    /\ faults = 0

\* a worker step that changes a person row or the queue disturbs the
\* populator call in progress and the record of the last one
Track ==
    LET changed == persons' # persons \/ tasks' # tasks
    IN  /\ populator' = IF changed
                        THEN [populator EXCEPT !.clean = FALSE, !.rep = FALSE,
                                               !.before = <<>>]
                        ELSE populator
        /\ last' = IF changed THEN NoCall ELSE last

(* ----------------------------- handlers ------------------------------- *)
\* A handler call is one step.  Its inputs are what the stage's external
\* collaborator does; its result is the new person row and how the call
\* ends: result "TRUE", "FALSE" or "NONE" for the value returned, or "RAISED"
\* with the text str(e).
Ended(row, result, error) == [row |-> row, result |-> result, error |-> error]

\* mutant of prellm_run: success without "SET flag_prellm = TRUE"
prellm_run_noflag(row) ==
    {Ended([row EXCEPT !.flag_prellm = "FALSE"], "RAISED", e) : e \in ErrTexts}
    \cup {Ended(row, "TRUE", NULL)}

\* handlers/prellm.py run: the cleaning raises or not
prellm_run(row) ==
    {Ended([row EXCEPT !.flag_prellm = "FALSE"], "RAISED", e) : e \in ErrTexts}
    \cup {Ended([row EXCEPT !.flag_prellm = "TRUE"], "TRUE", NULL)}

\* what one attempt of attempt_llm_parse meets: the call of the language
\* model raises, it gives something that is no non-empty dict, it gives a
\* dict whose fields make is_valid true or false, or it gives a dict and the
\* UPDATE that saves it raises
LlmAnswers == {"raise", "empty", "valid", "invalid", "unsaved"}

\* mutant of attempt_llm_parse: no loop, the first attempt decides
attempt_llm_parse_once(llm, row, n) ==
    IF llm[n] \in {"raise", "empty", "unsaved"}
    THEN [success |-> FALSE, row |-> row, calls |-> n]
    ELSE [success |-> TRUE, calls |-> n,
          row |-> [row EXCEPT !.valid =
                      IF llm[n] = "valid" THEN "TRUE" ELSE "FALSE"]]

\* handlers/llm.py attempt_llm_parse, from attempt number n on; llm[n] is the
\* answer to the n-th call.  calls counts the calls made.
RECURSIVE attempt_llm_parse(_, _, _)
attempt_llm_parse(llm, row, n) ==
    IF n > MAX_RETRIES
    THEN [success |-> FALSE, row |-> row, calls |-> n - 1]
    ELSE IF llm[n] \in {"raise", "empty", "unsaved"}
         THEN attempt_llm_parse(llm, row, n + 1)
         ELSE [success |-> TRUE, calls |-> n,
               row |-> [row EXCEPT !.valid =
                           IF llm[n] = "valid" THEN "TRUE" ELSE "FALSE"]]

\* handlers/llm.py run, when process_single_person has read the person and
\* the attempts meet the answers llm: flag_llm = TRUE and True after a
\* success, flag_llm = FALSE and the exception of line 153 otherwise
llm_run_on(llm, row) ==
    LET r == attempt_llm_parse(llm, row, 1)
    IN  IF r.success
        THEN Ended([r.row EXCEPT !.flag_llm = "TRUE"], "TRUE", NULL)
        ELSE Ended([r.row EXCEPT !.flag_llm = "FALSE"], "RAISED", "llm failed")

\* handlers/llm.py run, when fetch_person_data raises: process_single_person
\* lets the exception through, and the except branch of run evaluates
\* flag_query, which is assigned only after process_single_person returned.
\* The UnboundLocalError leaves run in place of the failure; no flag is
\* written.
llm_run_unread(row) == {Ended(row, "RAISED", "UnboundLocalError")}

\* handlers/llm.py run
llm_run(row) ==
    {llm_run_on(llm, row) : llm \in [1..MAX_RETRIES -> LlmAnswers]}
    \cup llm_run_unread(row)

\* handlers/perp.py run: fetch_person_data needs valid = TRUE; an exception
\* of the read, the search or the save sets flag_perp = FALSE and is raised
\* again
perp_run(row) ==
    {Ended([row EXCEPT !.flag_perp = "FALSE"], "RAISED", e) : e \in ErrTexts}
    \cup (IF row.valid # "TRUE"
          THEN {Ended(row, "FALSE", NULL)}
          ELSE {Ended([row EXCEPT !.flag_perp = "TRUE"], "TRUE", NULL)})

\* mutant of postcheck1_run: the save of a success sets done = TRUE
postcheck1_run_done(row) ==
    {Ended([row EXCEPT !.flag_postcheck1 = "FALSE", !.done = "FALSE"],
           "RAISED", e) : e \in ErrTexts}
    \cup (IF row.flag_perp # "TRUE"
          THEN {Ended(row, "NONE", NULL)}
          ELSE {Ended([row EXCEPT !.flag_postcheck1 = "TRUE", !.done = "TRUE"],
                      "NONE", NULL)})

\* handlers/postcheck1.py run: returns None on every path that does not
\* raise; the flag is set TRUE whatever is_valid is; an exception saves
\* flag_postcheck1 = FALSE with done = FALSE and is raised again
postcheck1_run(row) ==
    {Ended([row EXCEPT !.flag_postcheck1 = "FALSE", !.done = "FALSE"],
           "RAISED", e) : e \in ErrTexts}
    \cup (IF row.flag_perp # "TRUE"
          THEN {Ended(row, "NONE", NULL)}
          ELSE {Ended([row EXCEPT !.flag_postcheck1 = "TRUE"], "NONE", NULL)})

\* handlers/postcheck2.py run: returns is_valid, saved as flag_postcheck2
\* and done; an exception saves both as FALSE and is raised again
postcheck2_run(row) ==
    {Ended([row EXCEPT !.flag_postcheck2 = "FALSE", !.done = "FALSE"],
           "RAISED", e) : e \in ErrTexts}
    \cup (IF row.flag_postcheck1 # "TRUE"
          THEN {Ended(row, "FALSE", NULL)}
          ELSE {Ended([row EXCEPT !.flag_postcheck2 = v, !.done = v], v, NULL)
                   : v \in {"TRUE", "FALSE"}})

\* mutant of run_handler: a stage without handler is logged and skipped
run_handler_skip(t, row) ==
    IF t \notin HANDLERS
    THEN {Ended(row, "NONE", NULL)}
    ELSE CASE t = "prellm"     -> prellm_run(row)
           [] t = "llm"        -> llm_run(row)
           [] t = "perp"       -> perp_run(row)
           [] t = "postcheck1" -> postcheck1_run(row)
           [] t = "postcheck2" -> postcheck2_run(row)

\* utils/task_worker.py run_handler
run_handler(t, row) ==
    IF t \notin HANDLERS
    THEN {Ended(row, "RAISED", "unknown task type")}
    ELSE CASE t = "prellm"     -> prellm_run(row)
           [] t = "llm"        -> llm_run(row)
           [] t = "perp"       -> perp_run(row)
           [] t = "postcheck1" -> postcheck1_run(row)
           [] t = "postcheck2" -> postcheck2_run(row)

\* what a call that ended with o costs of MaxFaults: an exception raised by
\* the handler of a stage is a fault of its collaborator, the ValueError of
\* run_handler for a stage without handler is none
Fault(t, o) == IF o.result = "RAISED" /\ t \in HANDLERS THEN 1 ELSE 0

(* --------------------------- task status ------------------------------ *)
\* mutant of TakeRow: the UPDATE stamps finished_at as well
TakeRowStamped(r) ==
    [r EXCEPT !.status = "in_progress", !.started_at = "SET",
              !.finished_at = "SET", !.claims = r.claims + 1]

\* mutant of TakeRow: SET status = 'in_progress' only
TakeRowNoStart(r) ==
    [r EXCEPT !.status = "in_progress", !.claims = r.claims + 1]

\* TAKE_PENDING_TASK_QUERY, the UPDATE of the row the sub-select returned
TakeRow(r) ==
    [r EXCEPT !.status = "in_progress", !.started_at = "SET",
              !.claims = r.claims + 1]

\* mutant of mark_task_status: last_error = error, without "or 'Unknown error'"
mark_task_status_raw(r, status, error) ==
    IF status
    THEN [r EXCEPT !.status = "done", !.finished_at = "SET"]
    ELSE [r EXCEPT !.status = "failed", !.finished_at = "SET",
                   !.retries = r.retries + 1, !.last_error = error]

\* mutant of mark_task_status: the success branch writes nothing
mark_task_status_failures(r, status, error) ==
    IF status
    THEN r
    ELSE [r EXCEPT !.status = "failed", !.finished_at = "SET",
                   !.retries = r.retries + 1,
                   !.last_error = IF error \in {NULL, ""} THEN "Unknown error"
                                  ELSE error]

\* mutant of mark_task_status: the failure branch has no "retries = retries + 1"
mark_task_status_noretry(r, status, error) ==
    IF status
    THEN [r EXCEPT !.status = "done", !.finished_at = "SET"]
    ELSE [r EXCEPT !.status = "failed", !.finished_at = "SET",
                   !.last_error = IF error \in {NULL, ""} THEN "Unknown error"
                                  ELSE error]

\* utils/task_worker.py mark_task_status
mark_task_status(r, status, error) ==
    IF status
    THEN [r EXCEPT !.status = "done", !.finished_at = "SET"]
    ELSE [r EXCEPT !.status = "failed", !.finished_at = "SET",
                   !.retries = r.retries + 1,
                   !.last_error = IF error \in {NULL, ""} THEN "Unknown error"
                                  ELSE error]

(* ------------------------------ worker -------------------------------- *)
\* the claims made so far: rows taken, and rows locked by a claim in flight
ClaimsMade ==
    Cardinality({i \in Ids(tasks) : tasks[i].status # "pending"})
    + Cardinality(Locked)

\* mutant of Advances: create_new_task is called whatever the handler returned
AdvancesAlways(result) == TRUE

\* process_task: "if status:" decides whether create_new_task is called
Advances(result) == result = "TRUE"

\* fetch_pending_task, first phase: the sub-select locks one candidate row
ClaimSelect(w) ==
    /\ workers[w].pc = "fetch"
    /\ \E i \in ClaimCandidates(tasks, Locked) :
          workers' = [workers EXCEPT ![w] =
                         [@ EXCEPT !.pc = "locked", !.task = i,
                                   !.caught = FALSE]]
    /\ UNCHANGED <<persons, tasks, faults>>
    /\ Track

\* fetch_pending_task finds no row and returns None; worker_loop sleeps and
\* returns
ClaimNone(w) ==
    /\ workers[w].pc = "fetch"
    /\ ClaimCandidates(tasks, Locked) = {}
    /\ LET pending == {i \in Ids(tasks) : tasks[i].status = "pending"}
       IN  workers' = [workers EXCEPT ![w] =
              [@ EXCEPT !.pc = "exited", !.skipped = pending \cap Locked,
                        !.missed = pending \ Locked, !.caught = FALSE]]
    /\ UNCHANGED <<persons, tasks, faults>>
    /\ Track

\* fetch_pending_task: the claim statement fails (the database is
\* unreachable); it changes no row and releases its lock, and the exception
\* reaches worker_loop
ClaimFails(w) ==
    /\ workers[w].pc \in {"fetch", "locked"}
    /\ faults < MaxFaults
    /\ faults' = faults + 1
    /\ workers' = [workers EXCEPT ![w] = LoopCaught]
    /\ UNCHANGED <<persons, tasks>>
    /\ Track

\* fetch_pending_task, second phase: the UPDATE writes the locked row and
\* RETURNING hands it to the caller
ClaimUpdate(w) ==
    /\ workers[w].pc = "locked"
    /\ tasks' = [tasks EXCEPT ![workers[w].task] = TakeRow(@)]
    /\ workers' = [workers EXCEPT ![w] = [@ EXCEPT !.pc = "run"]]
    /\ UNCHANGED <<persons, faults>>
    /\ Track

\* process_task up to the call of add_for_person: run_handler, then
\* mark_task_status(db, task_id, True) and "if status:" with the lookup of
\* create_new_task, or the except branch with mark_task_status(db, task_id,
\* False, str(e)).  The handler call and the status update that follows it
\* are one step: no statement of another worker or of the populator reads
\* whether a row is in_progress, done or failed.
RunTask(w) ==
    /\ workers[w].pc = "run"
    /\ LET r == tasks[workers[w].task]
       IN  \E o \in run_handler(r.task_type, persons[r.person_id]) :
             /\ faults + Fault(r.task_type, o) <= MaxFaults
             /\ faults' = faults + Fault(r.task_type, o)
             /\ persons' = [persons EXCEPT ![r.person_id] = o.row]
             /\ tasks' = [tasks EXCEPT ![r.id] =
                    [mark_task_status(@, o.result # "RAISED", o.error)
                        EXCEPT !.outcome = o.result, !.raised = o.error]]
             /\ workers' = [workers EXCEPT ![w] =
                    IF /\ o.result # "RAISED"
                       /\ Advances(o.result)
                       /\ NEXT_TASK[r.task_type] # NULL
                    THEN [@ EXCEPT !.pc = "create", !.result = o.result]
                    ELSE IF o.result = "RAISED"
                    THEN [IdleWorker EXCEPT !.failed = r.id]
                    ELSE IdleWorker]
    /\ Track

\* process_task when the database fails at its status update.  After a
\* handler that returned, mark_task_status(db, task_id, True) raises and the
\* except branch runs mark_task_status(db, task_id, False, str(e)), which
\* succeeds or (again) raises too; after a handler that raised, the
\* mark_task_status of the except branch raises.  An exception raised inside
\* the except branch leaves process_task and reaches worker_loop; the task
\* stays in_progress.
StatusUpdateFails(w) ==
    /\ workers[w].pc = "run"
    /\ LET r == tasks[workers[w].task]
       IN  \E o \in run_handler(r.task_type, persons[r.person_id]),
              again \in BOOLEAN :
             LET cost == 1 + Fault(r.task_type, o)
                 escapes == o.result = "RAISED" \/ again
             IN  /\ o.result = "RAISED" => again
                 /\ faults + cost <= MaxFaults
                 /\ faults' = faults + cost
                 /\ persons' = [persons EXCEPT ![r.person_id] = o.row]
                 /\ tasks' = [tasks EXCEPT ![r.id] =
                        [(IF escapes THEN @
                          ELSE mark_task_status(@, FALSE, "database error"))
                            EXCEPT !.outcome = o.result, !.raised = o.error]]
                 /\ workers' = [workers EXCEPT ![w] =
                        IF escapes THEN LoopCaught ELSE IdleWorker]
    /\ Track

\* create_new_task -> add_for_person -> _insert_task, first phase: the
\* INSERT evaluates its SELECT.  An unregistered stage raises ValueError,
\* which the except branch of process_task turns into
\* mark_task_status(db, task_id, False, str(e)).
EnqueueSelect(w) ==
    /\ workers[w].pc = "create"
    /\ LET r == tasks[workers[w].task]
           next == NEXT_TASK[r.task_type]
           sel == InsertTaskSelect(tasks, persons, r.person_id, next)
       IN  IF ~Registered(next) \/ ~HasRule(next)
           THEN /\ tasks' = [tasks EXCEPT ![r.id] =
                       mark_task_status(@, FALSE, "unknown task type")]
                /\ workers' = [workers EXCEPT ![w] = IdleWorker]
           ELSE /\ tasks' = tasks
                /\ workers' = [workers EXCEPT ![w] =
                       IF sel = {} THEN IdleWorker
                       ELSE [@ EXCEPT !.pc = "insert", !.sel = sel,
                                      !.at = Len(tasks)]]
    /\ UNCHANGED <<persons, faults>>
    /\ Track

\* add_for_person raises (its own connection cannot be opened, or the
\* statement fails); the except branch of process_task runs
\* mark_task_status(db, task_id, False, str(e)) on the task it has marked
\* done
EnqueueFails(w) ==
    /\ workers[w].pc = "create"
    /\ faults < MaxFaults
    /\ faults' = faults + 1
    /\ tasks' = [tasks EXCEPT ![workers[w].task] =
                    mark_task_status(@, FALSE, "connection error")]
    /\ workers' = [workers EXCEPT ![w] = IdleWorker]
    /\ UNCHANGED persons
    /\ Track

\* _insert_task, second phase: the selected row is written
EnqueueInsert(w) ==
    /\ workers[w].pc = "insert"
    /\ LET r == tasks[workers[w].task]
       IN  tasks' = InsertRows(tasks, workers[w].sel, NEXT_TASK[r.task_type],
                               workers[w].at, r.id)
    /\ workers' = [workers EXCEPT ![w] = IdleWorker]
    /\ UNCHANGED <<persons, faults>>
    /\ Track

(* ----------------------------- populator ------------------------------ *)
\* the call returns: it is recorded if nothing disturbed it
Completed(after) ==
    /\ populator' = [IdlePopulator EXCEPT !.calls = populator.calls]
    /\ last' = IF populator.clean
               THEN [op |-> populator.op, person |-> populator.person,
                     stage |-> populator.stage, before |-> populator.before,
                     after |-> after, rep |-> populator.rep,
                     error |-> NULL, connected |-> TRUE]
               ELSE NoCall

\* fill_all: the loop over config.TASK_TYPES goes on, or the call returns
NextStage(after) ==
    IF populator.idx < Len(TASK_TYPES)
    THEN /\ populator' = [populator EXCEPT !.pc = "count", !.idx = @ + 1,
                                           !.sel = {}, !.at = 0]
         /\ last' = last
    ELSE Completed(after)

\* fill_all: connect, and the loop over config.TASK_TYPES begins
FillStart ==
    /\ populator.pc = "idle"
    /\ populator' = [populator EXCEPT !.pc = "count", !.op = "fill", !.idx = 1,
                                      !.before = tasks, !.clean = TRUE,
                                      !.rep = (last.op = "fill"),
                                      !.calls = @ + 1]
    /\ last' = NoCall
    /\ UNCHANGED <<persons, tasks, workers, faults>>

\* _insert_tasks_bulk: the count query and "if expected_count > 0"; the
\* insert query then evaluates the same SELECT (first phase).  The two
\* SELECTs are one step: whatever another statement changes between them
\* leaves the insert query with the rows it would select if the count query
\* ran right before it.
FillSelect ==
    /\ populator.pc = "count"
    /\ LET sel == BulkSelect(tasks, persons, TASK_TYPES[populator.idx])
           expected_count == Cardinality(sel)
       IN  IF expected_count > 0
           THEN /\ populator' = [populator EXCEPT !.pc = "insert", !.sel = sel,
                                                  !.at = Len(tasks)]
                /\ last' = last
           ELSE NextStage(tasks)
    /\ UNCHANGED <<persons, tasks, workers, faults>>

\* _insert_tasks_bulk: the insert query, second phase
FillInsert ==
    /\ populator.pc = "insert"
    /\ tasks' = InsertRows(tasks, populator.sel, TASK_TYPES[populator.idx],
                           populator.at, NoTask)
    /\ NextStage(tasks')
    /\ UNCHANGED <<persons, workers, faults>>

\* add_for_person(p, t): the check of the stage name, then connect and
\* _insert_task, first phase.  error and connected of the recorded call are
\* history fields: the exception the call raised and whether it had opened
\* its connection.
AddSelect(p, t) ==
    /\ populator.pc = "idle"
    /\ LET sel == InsertTaskSelect(tasks, persons, p, t)
           call == [populator EXCEPT !.op = "add", !.person = p, !.stage = t,
                                     !.before = tasks, !.clean = TRUE,
                                     !.rep = (/\ last.op = "add"
                                              /\ last.person = p
                                              /\ last.stage = t),
                                     !.calls = @ + 1]
           returned == [op |-> "add", person |-> p, stage |-> t,
                        before |-> tasks, after |-> tasks, rep |-> call.rep,
                        error |-> NULL, connected |-> TRUE]
       IN  IF ~Registered(t)
           THEN /\ populator' = [IdlePopulator EXCEPT !.calls = call.calls]
                /\ last' = [returned EXCEPT !.error = "ValueError",
                                            !.connected = FALSE]
           ELSE IF ~HasRule(t)
           THEN /\ populator' = [IdlePopulator EXCEPT !.calls = call.calls]
                /\ last' = [returned EXCEPT !.error = "KeyError"]
           ELSE IF sel = {}
           THEN /\ populator' = [IdlePopulator EXCEPT !.calls = call.calls]
                /\ last' = returned
           ELSE /\ populator' = [call EXCEPT !.pc = "add_insert", !.sel = sel,
                                             !.at = Len(tasks)]
                /\ last' = NoCall
    /\ UNCHANGED <<persons, tasks, workers, faults>>

\* _insert_task, second phase
AddInsert ==
    /\ populator.pc = "add_insert"
    /\ tasks' = InsertRows(tasks, populator.sel, populator.stage, populator.at,
                           NoTask)
    /\ Completed(tasks')
    /\ UNCHANGED <<persons, workers, faults>>

(* ------------------------- the whole chain ---------------------------- *)
\* a handler call that never returns: the worker stays inside process_task,
\* its task in_progress.  at records the logical time the call began to hang.
Hang(w) ==
    /\ workers[w].pc = "run"
    /\ faults < MaxFaults
    /\ faults' = faults + 1
    /\ workers' = [workers EXCEPT ![w] =
                      [@ EXCEPT !.pc = "hung", !.at = Len(tasks)]]
    /\ UNCHANGED <<persons, tasks>>
    /\ Track

\* fill_all from stage number k on, on the queue q: for each stage the rows
\* _insert_tasks_bulk inserts
RECURSIVE fill_all(_, _, _)
fill_all(q, ps, k) ==
    IF k > Len(TASK_TYPES) THEN q
    ELSE fill_all(InsertRows(q, BulkSelect(q, ps, TASK_TYPES[k]), TASK_TYPES[k],
                             Len(q), NoTask), ps, k + 1)

\* a whole call of fill_all between two steps of the workers
FillAll ==
    /\ populator.pc = "idle"
    /\ populator.calls < MaxFills
    /\ tasks' = fill_all(tasks, persons, 1)
    /\ populator' = [populator EXCEPT !.calls = @ + 1]
    /\ last' = NoCall
    /\ UNCHANGED <<persons, workers, faults>>

\* the queue the workers start on: empty, or holding a pending row of the
\* stage "photos" from a time that stage was registered (task_type is TEXT,
\* fill_all never removes a row)
InitRun ==
    /\ persons = [p \in Persons |-> NewPerson]
    /\ tasks \in {<<>>} \cup {<<NewTask(1, p, "photos", 0, NoTask)>> : p \in Persons}
    /\ workers = [w \in Workers |-> IdleWorker]
    /\ populator = IdlePopulator
    /\ last = NoCall
    /\ faults = 0

\* the steps of worker w that its scheduling guarantees: every statement
\* and every handler call that returns
WorkerStep(w) ==
    \/ ClaimSelect(w)
    \/ ClaimNone(w)
    \/ ClaimUpdate(w)
    \/ RunTask(w)
    \/ EnqueueSelect(w)
    \/ EnqueueInsert(w)

\* main() of task_worker.py starts one worker_loop ("workers = 1")
TheWorker == 1

NextRun ==
    \/ ClaimSelect(TheWorker)
    \/ ClaimNone(TheWorker)
    \/ ClaimUpdate(TheWorker)
    \/ RunTask(TheWorker)
    \/ EnqueueSelect(TheWorker)
    \/ EnqueueInsert(TheWorker)
    \/ FillAll

\* one worker runs the chain as far as it goes, fill_all called up to
\* MaxFills times in between
SpecRun == InitRun /\ [][NextRun]_vars

\* asyncio runs every coroutine that is ready: a worker that can take a step
\* takes one
FairRun == SpecRun /\ WF_vars(WorkerStep(TheWorker))

\* fill_all is called once
FillOnce == populator.calls = 0 /\ FillAll

NextPool ==
    \/ \E w \in Workers : ClaimSelect(w)
    \/ \E w \in Workers : ClaimNone(w)
    \/ \E w \in Workers : ClaimUpdate(w)
    \/ \E w \in Workers : RunTask(w)
    \/ \E w \in Workers : Hang(w)
    \/ \E w \in Workers : EnqueueSelect(w)
    \/ \E w \in Workers : EnqueueInsert(w)
    \/ FillOnce

\* the pool of workers on the queue one fill_all gives them, a handler call
\* may hang
SpecPool == Init /\ [][NextPool]_vars

FairPool == SpecPool /\ \A w \in Workers : WF_vars(WorkerStep(w))

(* --------------------------- specification ---------------------------- *)
\* another operation may start
OpsLeft == populator.calls + ClaimsMade < MaxOps

\* a worker_loop iteration starts its claim
Claim(w) == OpsLeft /\ ClaimSelect(w)

\* fill_all is called
CallFillAll == OpsLeft /\ FillStart

\* add_for_person(p, t) is called from outside the workers
CallAddForPerson(p, t) == OpsLeft /\ AddSelect(p, t)

Next ==
    \/ \E w \in Workers : Claim(w)
    \/ \E w \in Workers : ClaimNone(w)
    \/ \E w \in Workers : ClaimFails(w)
    \/ \E w \in Workers : ClaimUpdate(w)
    \/ \E w \in Workers : RunTask(w)
    \/ \E w \in Workers : StatusUpdateFails(w)
    \/ \E w \in Workers : EnqueueSelect(w)
    \/ \E w \in Workers : EnqueueFails(w)
    \/ \E w \in Workers : EnqueueInsert(w)
    \/ CallFillAll
    \/ FillSelect
    \/ FillInsert
    \/ \E p \in Persons, t \in StageNames : CallAddForPerson(p, t)
    \/ AddInsert

Spec == Init /\ [][Next]_vars

(* ------------------- enqueue operations in sequence ------------------- *)
\* no enqueue operation is between its first and its last statement: the
\* populator is in no call of fill_all or add_for_person, no worker is
\* inside the add_for_person of create_new_task
EnqueueIdle ==
    /\ populator.pc = "idle"
    /\ \A w \in Workers : workers[w].pc # "insert"

\* create_new_task is entered while no enqueue operation runs
SerialEnqueue(w) == EnqueueIdle /\ EnqueueSelect(w)

\* fill_all is called while no enqueue operation runs
SerialFillAll == EnqueueIdle /\ CallFillAll

\* add_for_person is called from outside while no enqueue operation runs
SerialAddForPerson(p, t) == EnqueueIdle /\ CallAddForPerson(p, t)

NextSerial ==
    \/ \E w \in Workers : Claim(w)
    \/ \E w \in Workers : ClaimNone(w)
    \/ \E w \in Workers : ClaimFails(w)
    \/ \E w \in Workers : ClaimUpdate(w)
    \/ \E w \in Workers : RunTask(w)
    \/ \E w \in Workers : StatusUpdateFails(w)
    \/ \E w \in Workers : SerialEnqueue(w)
    \/ \E w \in Workers : EnqueueFails(w)
    \/ \E w \in Workers : EnqueueInsert(w)
    \/ SerialFillAll
    \/ FillSelect
    \/ FillInsert
    \/ \E p \in Persons, t \in StageNames : SerialAddForPerson(p, t)
    \/ AddInsert

\* the executions of Spec in which no two enqueue operations overlap in time
SpecSerial == Init /\ [][NextSerial]_vars

(* ------------------ add_for_person on a found table ------------------- *)
\* a person_id no row of person_result_data has
UnknownPerson == NumPersons + 1

\* the flags a person row may hold when a run starts: task_queue is dropped
\* and created anew (DROP_AND_CREATE_TASK_QUEUE_QUERY), person_result_data
\* keeps what the handlers of earlier runs wrote
FoundRows ==
    {[NewPerson EXCEPT !.flag_prellm = a, !.flag_llm = b, !.flag_perp = c,
                       !.flag_postcheck1 = d, !.flag_postcheck2 = e] :
        a \in {NULL, "TRUE", "FALSE"}, b \in {NULL, "TRUE", "FALSE"},
        c \in {NULL, "TRUE", "FALSE"}, d \in {NULL, "TRUE", "FALSE"},
        e \in {NULL, "TRUE", "FALSE"}}

\* the first person's row is as an earlier run left it, the queue is new
InitFound ==
    /\ persons \in {[p \in Persons |-> IF p = 1 THEN r ELSE NewPerson] :
                       r \in FoundRows}
    /\ tasks = <<>>
    /\ workers = [w \in Workers |-> IdleWorker]
    /\ populator = IdlePopulator
    /\ last = NoCall
    /\ faults = 0

\* add_for_person(p, t) is called from outside the workers
AddFor(p, t) == populator.calls < MaxAdds /\ AddSelect(p, t)

NextFound ==
    \/ \E p \in Persons \cup {UnknownPerson}, t \in StageNames : AddFor(p, t)
    \/ AddInsert
    \/ ClaimSelect(TheWorker)
    \/ ClaimNone(TheWorker)
    \/ ClaimUpdate(TheWorker)
    \/ RunTask(TheWorker)
    \/ EnqueueSelect(TheWorker)
    \/ EnqueueInsert(TheWorker)

\* add_for_person called from outside and by one worker, on a found table
SpecFound == InitFound /\ [][NextFound]_vars

(* ------------------- the worker of task_worker.py --------------------- *)
\* task_worker.py HANDLERS: the stage names with a handler
ROOT_HANDLERS == {"prellm", "llm", "perp", "postcheck1", "postcheck2"}

\* mutant of fetch_task_candidates: no "and task_type = 'postcheck2'"
fetch_task_any_type(q, locked) ==
    LET free == {i \in Ids(q) : q[i].status = "pending" /\ i \notin locked}
    IN  {i \in free : \A j \in free : q[i].created_at <= q[j].created_at}

\* the sub-select of fetch_task: the rows LIMIT 1 may return: pending, of
\* type postcheck2, not locked by another claim, earliest created_at
fetch_task_candidates(q, locked) ==
    LET free == {i \in Ids(q) : /\ q[i].status = "pending"
                                /\ q[i].task_type = "postcheck2"
                                /\ i \notin locked}
    IN  {i \in free : \A j \in free : q[i].created_at <= q[j].created_at}

\* fetch_task, first phase: the sub-select locks one candidate row
fetch_task_select(w) ==
    /\ workers[w].pc = "fetch"
    /\ \E i \in fetch_task_candidates(tasks, Locked) :
          workers' = [workers EXCEPT ![w] =
                         [@ EXCEPT !.pc = "locked", !.task = i,
                                   !.caught = FALSE]]
    /\ UNCHANGED <<persons, tasks, faults>>
    /\ Track

\* fetch_task finds no row and returns None; worker_loop sleeps and goes on
\* with the next iteration ("continue")
fetch_task_none(w) ==
    /\ workers[w].pc = "fetch"
    /\ fetch_task_candidates(tasks, Locked) = {}
    /\ LET pending == {i \in Ids(tasks) : tasks[i].status = "pending"}
       IN  workers' = [workers EXCEPT ![w] =
              [@ EXCEPT !.skipped = pending \cap Locked,
                        !.missed = pending \ Locked, !.caught = FALSE]]
    /\ UNCHANGED <<persons, tasks, faults>>
    /\ Track

\* fetch_task, second phase: the UPDATE writes the locked row and RETURNING
\* hands it to the caller
fetch_task_update(w) ==
    /\ workers[w].pc = "locked"
    /\ tasks' = [tasks EXCEPT ![workers[w].task] = TakeRow(@)]
    /\ workers' = [workers EXCEPT ![w] = [@ EXCEPT !.pc = "run"]]
    /\ UNCHANGED <<persons, faults>>
    /\ Track

\* mutant of root_mark: the statement of the except branch is run for a
\* task without handler too
root_mark_unknown_failed(r, known, raised, error) ==
    IF ~known \/ raised
    THEN [r EXCEPT !.status = "failed", !.finished_at = "SET",
                   !.retries = r.retries + 1,
                   !.last_error = IF known THEN error ELSE "unknown task type"]
    ELSE [r EXCEPT !.status = "done", !.finished_at = "SET"]

\* task_worker.py process_task, what it writes to the row of its task: no
\* statement for a task without handler ("if not handler: ... return"), the
\* UPDATE to done after the handler returned, the UPDATE to failed with
\* last_error = str(e) after it raised
root_mark(r, known, raised, error) ==
    IF ~known THEN r
    ELSE IF raised
    THEN [r EXCEPT !.status = "failed", !.finished_at = "SET",
                   !.retries = r.retries + 1, !.last_error = error]
    ELSE [r EXCEPT !.status = "done", !.finished_at = "SET"]

\* task_worker.py process_task: returns at once for a task without handler,
\* else awaits the handler and writes the status.  returned is a history
\* field value of pc: process_task has returned without raising.
root_process_task(w) ==
    /\ workers[w].pc = "run"
    /\ LET r == tasks[workers[w].task]
           known == r.task_type \in ROOT_HANDLERS
           outs == IF known THEN run_handler(r.task_type, persons[r.person_id])
                   ELSE {Ended(persons[r.person_id], NULL, NULL)}
       IN  \E o \in outs :
             /\ faults + Fault(r.task_type, o) <= MaxFaults
             /\ faults' = faults + Fault(r.task_type, o)
             /\ persons' = [persons EXCEPT ![r.person_id] = o.row]
             /\ tasks' = [tasks EXCEPT ![r.id] =
                    [root_mark(@, known, o.result = "RAISED", o.error)
                        EXCEPT !.outcome = o.result, !.raised = o.error]]
             /\ workers' = [workers EXCEPT ![w] =
                    [@ EXCEPT !.pc = "returned"]]
    /\ Track

\* worker_loop: process_task has returned, the next iteration begins
root_loop(w) ==
    /\ workers[w].pc = "returned"
    /\ workers' = [workers EXCEPT ![w] = IdleWorker]
    /\ UNCHANGED <<persons, tasks, faults>>
    /\ Track

\* main(): fill_task_queue(), then one worker_loop; fill_all may be called
\* again while it runs
NextRoot ==
    \/ FillAll
    \/ fetch_task_select(TheWorker)
    \/ fetch_task_none(TheWorker)
    \/ fetch_task_update(TheWorker)
    \/ root_process_task(TheWorker)
    \/ root_loop(TheWorker)

\* the worker of task_worker.py on a found table of persons
SpecRoot == InitFound /\ [][NextRoot]_vars

\* process_task(db, task, worker_id) is entered: the task it is given is a
\* claimed row of any person and any stage name, the first person's row is
\* as an earlier run left it
InitGiven ==
    /\ persons \in {[p \in Persons |-> IF p = 1 THEN r ELSE NewPerson] :
                       r \in FoundRows}
    /\ tasks \in {<<TakeRow(NewTask(1, p, t, 0, NoTask))>> :
                     p \in Persons, t \in StageNames}
    /\ workers = [w \in Workers |->
                     IF w = TheWorker
                     THEN [IdleWorker EXCEPT !.pc = "run", !.task = 1]
                     ELSE IdleWorker]
    /\ populator = IdlePopulator
    /\ last = NoCall
    /\ faults = 0

NextGiven ==
    \/ root_process_task(TheWorker)
    \/ root_loop(TheWorker)

\* one call of process_task of task_worker.py on a task it is given
SpecGiven == InitGiven /\ [][NextGiven]_vars

(* ------------------------------- claims ------------------------------- *)
Terminal == {"done", "failed"}

\* the rows a recorded populator call added
Added(call) == (Len(call.before) + 1)..Len(call.after)

\* the recorded call changed no row that existed before it
KeptRows(call) ==
    /\ Len(call.after) >= Len(call.before)
    /\ SubSeq(call.after, 1, Len(call.before)) = call.before

\* C1: no double-claim.  No task is returned by the claim more than once, no
\* two workers hold the same task, and a claim returns no row only when
\* every pending row is locked by another claim in flight (which returns it).
C1_NoDoubleClaim ==
    /\ \A i \in Ids(tasks) :
          /\ tasks[i].claims <= 1
          /\ tasks[i].claims = 1 <=> tasks[i].status # "pending"
    /\ \A w1, w2 \in Workers :
          (w1 # w2 /\ workers[w1].task # NoTask)
             => workers[w1].task # workers[w2].task
    /\ \A w \in Workers : workers[w].pc = "exited" => workers[w].missed = {}

\* two claims ran concurrently against one pending row: one locked it, the
\* other skipped it and returned no task
C1_Witness ==
    \E w1, w2 \in Workers :
        /\ workers[w1].pc = "exited" /\ workers[w1].skipped # {}
        /\ workers[w2].task \in workers[w1].skipped
        /\ tasks[workers[w2].task].claims = 1

\* C2: terminal states are final.  No step changes the status, retries or
\* last_error of a task that is done or failed.
C2_TerminalFinal ==
    [][\A i \in Ids(tasks) :
          tasks[i].status \in Terminal =>
             /\ tasks'[i].status = tasks[i].status
             /\ tasks'[i].retries = tasks[i].retries
             /\ tasks'[i].last_error = tasks[i].last_error]_vars

\* C3: task status never moves backwards.  No row is deleted, no claimed or
\* finished task becomes pending again, no finished task becomes in_progress
\* again.
C3_StatusMonotonic ==
    [][/\ Len(tasks') >= Len(tasks)
       /\ \A i \in Ids(tasks) :
             /\ tasks[i].status # "pending" => tasks'[i].status # "pending"
             /\ tasks[i].status \in Terminal => tasks'[i].status \in Terminal]_vars

\* a finished task, and a later task claimed and a later populator call
C3_Witness ==
    /\ last.op # "none"
    /\ \E i, j \in Ids(tasks) :
          /\ tasks[i].status \in Terminal
          /\ j > i /\ tasks[j].status = "in_progress"

\* C4: monotonic advancement.  A worker calls add_for_person, and a row is
\* enqueued by a worker, only for a task whose handler returned True; the
\* row is for the same person and the next stage.
C4_AdvanceOnlyOnSuccess ==
    /\ \A w \in Workers :
          workers[w].pc \in {"create", "insert"} => workers[w].result = "TRUE"
    /\ \A i \in Ids(tasks) :
          tasks[i].creator # NoTask =>
             /\ tasks[tasks[i].creator].outcome = "TRUE"
             /\ tasks[tasks[i].creator].person_id = tasks[i].person_id
             /\ NEXT_TASK[tasks[tasks[i].creator].task_type] = tasks[i].task_type

\* one task's handler returned False and one task's handler returned True
\* and got its successor enqueued
C4_Witness ==
    /\ \E i \in Ids(tasks) : tasks[i].outcome = "FALSE" /\ tasks[i].status = "done"
    /\ \E i \in Ids(tasks) : tasks[i].creator # NoTask

\* C5: a handler that returns False leaves its task failed, with retries
\* incremented and last_error recorded.
C5_FalseMarksFailed ==
    \A i \in Ids(tasks) :
        (tasks[i].outcome = "FALSE" /\ tasks[i].status \in Terminal) =>
            /\ tasks[i].status = "failed"
            /\ tasks[i].retries = 1
            /\ tasks[i].last_error # NULL

\* C6: retry bookkeeping.  The step in which a handler raises (and the
\* database takes the status update) leaves the
\* task failed with retries 0 -> 1, finished_at set and last_error the
\* exception text, or 'Unknown error' for an empty text; it adds no row and
\* the worker is back at the head of its loop.  No row is ever enqueued for a
\* task whose handler raised.
C6_RetryBookkeeping ==
    [][/\ \A w \in Workers :
             LET t == workers[w].task
             IN  (/\ workers[w].pc = "run"
                  /\ tasks'[t].outcome = "RAISED"
                  /\ faults' = faults + 1) =>
                     /\ tasks[t].retries = 0
                     /\ tasks' = [tasks EXCEPT ![t] =
                           [@ EXCEPT !.status = "failed", !.retries = 1,
                                     !.finished_at = "SET",
                                     !.outcome = "RAISED",
                                     !.raised = tasks'[t].raised,
                                     !.last_error =
                                         IF tasks'[t].raised = ""
                                         THEN "Unknown error"
                                         ELSE tasks'[t].raised]]
                     /\ tasks'[t].last_error \notin {NULL, ""}
                     /\ workers'[w] = [IdleWorker EXCEPT !.failed = t]
       /\ \A i \in Ids(tasks') :
             tasks'[i].creator # NoTask =>
                tasks'[tasks'[i].creator].outcome # "RAISED"]_vars

\* a handler raised an exception with an empty text and its task is failed
C6_Witness ==
    \E i \in Ids(tasks) :
        /\ tasks[i].outcome = "RAISED"
        /\ tasks[i].raised = ""
        /\ tasks[i].status = "failed"
        /\ tasks[i].last_error = "Unknown error"

\* C7: bulk-fill idempotence.  A fill_all that follows a fill_all, with no
\* change to the person rows or the queue by anyone else since the first one
\* started, leaves the queue as the first one left it.
C7_FillIdempotent ==
    (last.op = "fill" /\ last.rep) => last.after = last.before

\* the second of two fill_all runs has returned, the first had filled the
\* queue
C7_Witness ==
    /\ last.op = "fill" /\ last.rep
    /\ \E i \in Ids(last.before) : last.before[i].creator = NoTask

\* C8: bulk-fill selection.  An undisturbed fill_all keeps every row and
\* adds, for each stage and person, one pending row if the person satisfies
\* the stage's rule, the stage's flag is NULL or FALSE and no row of that
\* person and stage existed, and none otherwise.
C8_FillSelection ==
    last.op = "fill" =>
        /\ KeptRows(last)
        /\ \A p \in Persons, t \in TaskTypeSet :
              LET new == {i \in Added(last) :
                            /\ last.after[i].person_id = p
                            /\ last.after[i].task_type = t}
                  due == /\ TASK_RULES(t, persons[p])
                         /\ persons[p][TASK_FLAGS[t]] # "TRUE"
                         /\ \A j \in Ids(last.before) :
                               ~(/\ last.before[j].person_id = p
                                 /\ last.before[j].task_type = t)
              IN  Cardinality(new) = IF due THEN 1 ELSE 0
        /\ \A i \in Added(last) :
              /\ last.after[i].status = "pending"
              /\ last.after[i].id = i
              /\ last.after[i].retries = 0

\* a fill_all added rows for some persons and stages to a queue that already
\* held rows
C8_Witness ==
    /\ last.op = "fill"
    /\ last.before # <<>>
    /\ Len(last.after) > Len(last.before)

\* C9: a failed task is not re-inserted.  An undisturbed fill_all adds no row
\* for a person and stage that had a failed row when it started.
C9_FailedNotReinserted ==
    last.op = "fill" =>
        \A j \in Ids(last.before), i \in Added(last) :
            last.before[j].status = "failed" =>
                ~(/\ last.after[i].person_id = last.before[j].person_id
                  /\ last.after[i].task_type = last.before[j].task_type)

\* a fill_all ran over a failed task whose handler had reset the stage's
\* flag to FALSE, the person still satisfying the stage's rule
C9_Witness ==
    /\ last.op = "fill"
    /\ \E j \in Ids(last.before) :
          LET r == last.before[j]
          IN  /\ r.status = "failed"
              /\ persons[r.person_id][TASK_FLAGS[r.task_type]] = "FALSE"
              /\ TASK_RULES(r.task_type, persons[r.person_id])

\* C10: add_for_person is idempotent.  An undisturbed add_for_person(p, t)
\* keeps every row and adds at most one row, a pending one of (p, t); it
\* adds none if a row of (p, t) existed or if it follows the same call.
C10_AddIdempotent ==
    last.op = "add" =>
        /\ KeptRows(last)
        /\ Len(last.after) <= Len(last.before) + 1
        /\ \A i \in Added(last) :
              /\ last.after[i].person_id = last.person
              /\ last.after[i].task_type = last.stage
              /\ last.after[i].status = "pending"
        /\ (\E j \in Ids(last.before) :
               /\ last.before[j].person_id = last.person
               /\ last.before[j].task_type = last.stage)
              => last.after = last.before
        /\ last.rep => last.after = last.before

\* the second of two equal add_for_person calls has returned, the first had
\* inserted the row
C10_Witness ==
    /\ last.op = "add" /\ last.rep
    /\ \E j \in Ids(last.before) :
          /\ last.before[j].person_id = last.person
          /\ last.before[j].task_type = last.stage
          /\ last.before[j].creator = NoTask
          /\ last.before[j].status = "pending"

\* C11: add_for_person with an unregistered stage name raises the
\* unknown-stage error before it opens a connection and leaves the queue as
\* it was.
C11_UnknownStageRejected ==
    (last.op = "add" /\ last.stage \notin TaskTypeSet) =>
        /\ last.error = "ValueError"
        /\ ~last.connected
        /\ last.after = last.before
        /\ populator.pc = "idle"

\* add_for_person was called with the stage "photos" on a queue that holds
\* rows
C11_Witness ==
    /\ last.op = "add" /\ last.stage = "photos"
    /\ last.error # NULL
    /\ last.before # <<>>

\* C15: idle workers keep polling.  A worker never leaves its loop.
C15_WorkersKeepPolling ==
    \A w \in Workers : workers[w].pc # "exited"

\* C16: persistence errors do not stop a worker.  A pass through the loop
\* body that ends in the except branch of worker_loop, after the claim or a
\* status update raised, leaves the worker at the head of its loop, holding
\* no task, and changes no status to done or failed.
C16_ErrorsDoNotStopWorker ==
    [][\A w \in Workers :
          (workers'[w].caught /\ workers'[w] # workers[w]
              /\ workers[w].pc \in {"fetch", "locked", "run"}) =>
             /\ workers'[w].pc = "fetch"
             /\ workers'[w].task = NoTask
             /\ \A i \in Ids(tasks) : tasks'[i].status = tasks[i].status]_vars

\* a worker's status update failed behind a handler that had returned: the
\* worker is back at the head of its loop, the task is still in_progress
C16_Witness ==
    \E w \in Workers, i \in Ids(tasks) :
        /\ workers[w].caught /\ workers[w].pc = "fetch"
        /\ tasks[i].status = "in_progress" /\ tasks[i].outcome = "TRUE"
        /\ \A v \in Workers : workers[v].task # i

\* the rows of person p and stage t in the queue q
RowsOf(q, p, t) == {i \in Ids(q) : q[i].person_id = p /\ q[i].task_type = t}

\* C13: end-to-end advance.  A fill_all adds, for a person without tasks,
\* exactly one row, a pending (P, prellm).  While no collaborator has raised
\* and the database has not failed: a prellm task whose handler returned
\* True is done; once its worker is through with it, the worker has
\* enqueued exactly one row for it, a (P, llm), and that is the only
\* (P, llm) row unless an add_for_person from outside supplied another.
C13_EndToEndAdvance ==
    /\ last.op = "fill" =>
          \A p \in Persons :
             (\A j \in Ids(last.before) : last.before[j].person_id # p) =>
                \E i \in Added(last) :
                   /\ last.after[i].person_id = p
                   /\ last.after[i].task_type = "prellm"
                   /\ last.after[i].status = "pending"
                   /\ \A k \in Added(last) :
                         last.after[k].person_id = p => k = i
    /\ faults = 0 =>
          \A i \in Ids(tasks) :
             (tasks[i].task_type = "prellm" /\ tasks[i].outcome = "TRUE") =>
                /\ tasks[i].status = "done"
                /\ (\A w \in Workers : workers[w].task # i) =>
                      LET llms == RowsOf(tasks, tasks[i].person_id, "llm")
                          mine == {j \in Ids(tasks) : tasks[j].creator = i}
                      IN  /\ llms # {}
                          /\ mine \subseteq llms
                          /\ Cardinality(mine) <= 1
                          /\ \A j \in llms : tasks[j].creator \in {i, NoTask}
                          /\ (\A j \in llms : tasks[j].creator # NoTask)
                                => Cardinality(llms) = 1
                          /\ \A j \in mine :
                                tasks[j].claims = 0 => tasks[j].status = "pending"

\* fill_all created (P, prellm), a worker claimed it, the handler returned
\* True, and the worker enqueued the pending (P, llm)
C13_Witness ==
    /\ faults = 0
    /\ \E i, j \in Ids(tasks) :
          /\ tasks[i].task_type = "prellm" /\ tasks[i].creator = NoTask
          /\ tasks[i].outcome = "TRUE" /\ tasks[i].status = "done"
          /\ tasks[j].creator = i /\ tasks[j].task_type = "llm"
          /\ tasks[j].person_id = tasks[i].person_id
          /\ tasks[j].status = "pending"
          /\ \A w \in Workers : workers[w].task # i

\* C18: no automatic retry.  The claim returns a task at most once and only
\* while it is pending, so its handler is called at most once; a task that
\* has a handler result keeps it; no step changes a failed task.
C18_NoAutomaticRetry ==
    [][/\ \A i \in Ids(tasks) :
             /\ tasks'[i].claims <= 1
             /\ tasks[i].claims = 1 => tasks'[i].claims = 1
             /\ tasks[i].outcome # NULL => tasks'[i].outcome = tasks[i].outcome
             /\ tasks[i].status = "failed" => tasks'[i] = tasks[i]
       /\ \A w \in Workers :
             (workers'[w].pc = "run" /\ workers[w].pc # "run") =>
                LET r == tasks[workers'[w].task]
                IN  r.status = "pending" /\ r.claims = 0 /\ r.outcome = NULL]_vars

\* a task failed with retries left, and every worker has since run a claim
\* that returned no task
C18_Witness ==
    /\ \A w \in Workers : workers[w].pc = "exited"
    /\ \E i \in Ids(tasks) :
          /\ tasks[i].status = "failed" /\ tasks[i].outcome = "RAISED"
          /\ tasks[i].retries = 1 /\ tasks[i].retries < MAX_RETRIES

\* the position of stage t in the chain
StageIndex(t) == CHOOSE k \in 1..Len(TASK_TYPES) : TASK_TYPES[k] = t

\* C20: chain order.  Every row a worker adds is a row (P, t) for a task of
\* P that is done in the state it is added to, t the stage right after that
\* task's stage in the chain.
C20_ChainOrder ==
    [][\A j \in Ids(tasks') \ Ids(tasks) :
          tasks'[j].creator # NoTask =>
             LET c == tasks'[j].creator
             IN  /\ c \in Ids(tasks)
                 /\ tasks[c].status = "done"
                 /\ tasks[c].person_id = tasks'[j].person_id
                 /\ tasks'[j].task_type \in TaskTypeSet
                 /\ StageIndex(tasks'[j].task_type)
                       = StageIndex(tasks[c].task_type) + 1
                 /\ \A k \in Ids(tasks) : tasks[k].creator # c]_vars

\* a worker enqueued (P, perp) for a task (P, llm) that a worker had
\* enqueued for (P, prellm)
C20_Witness ==
    \E i, j, k \in Ids(tasks) :
        /\ tasks[i].task_type = "prellm"
        /\ tasks[j].creator = i /\ tasks[j].task_type = "llm"
        /\ tasks[k].creator = j /\ tasks[k].task_type = "perp"
        /\ tasks[j].status = "done"

\* C12: terminal chain.  A postcheck2 task whose handler returned True is
\* done, its worker does not go on to create_new_task's insert, and no row
\* is enqueued for it; a worker is on its way to add_for_person only for a
\* stage that has a successor.
C12_TerminalChain ==
    /\ \A i \in Ids(tasks) :
          (tasks[i].task_type = "postcheck2" /\ tasks[i].outcome = "TRUE") =>
             /\ tasks[i].status = "done"
             /\ \A j \in Ids(tasks) : tasks[j].creator # i
             /\ \A w \in Workers : workers[w].task # i
    /\ \A w \in Workers :
          workers[w].pc \in {"create", "insert"} =>
             NEXT_TASK[tasks[workers[w].task].task_type] # NULL

\* a person went through the whole chain: the postcheck2 task is done, the
\* handler has set done = TRUE
C12_Witness ==
    \E i \in Ids(tasks) :
        /\ tasks[i].task_type = "postcheck2" /\ tasks[i].outcome = "TRUE"
        /\ tasks[i].status = "done"
        /\ persons[tasks[i].person_id].done = "TRUE"
        /\ workers[TheWorker].pc = "exited"

\* C14: unknown stage in the worker.  The step that processes a claimed task
\* of a stage without handler marks the task failed, retries + 1, with a
\* last_error; it changes no person row (no handler ran), adds no row and
\* leaves the worker at the head of its loop.
C14_UnknownStageFails ==
    [][\A w \in Workers :
          LET t == workers[w].task
          IN  (/\ workers[w].pc = "run"
               /\ tasks[t].task_type \notin HANDLERS
               /\ workers'[w] # workers[w]) =>
                  /\ tasks'[t].status = "failed"
                  /\ tasks'[t].retries = tasks[t].retries + 1
                  /\ tasks'[t].last_error \notin {NULL, ""}
                  /\ persons' = persons
                  /\ Len(tasks') = Len(tasks)
                  /\ workers'[w].pc = "fetch"]_vars

\* a task of the stage "photos" was claimed and is failed
C14_Witness ==
    \E i \in Ids(tasks) :
        /\ tasks[i].task_type = "photos"
        /\ tasks[i].claims = 1
        /\ tasks[i].status = "failed" /\ tasks[i].retries = 1
        /\ tasks[i].last_error = "unknown task type"

\* person p has a failed task whose handler raised
HasFailed(p) ==
    \E i \in Ids(tasks) :
        /\ tasks[i].person_id = p
        /\ tasks[i].status = "failed" /\ tasks[i].outcome = "RAISED"

\* person p has a pending task
HasPending(p) ==
    \E i \in Ids(tasks) : tasks[i].person_id = p /\ tasks[i].status = "pending"

\* every task of person p is done or failed
AllFinished(p) ==
    \A i \in Ids(tasks) : tasks[i].person_id = p => tasks[i].status \in Terminal

\* C17: no stall for other persons.  A failed task stays failed; and when a
\* person has a failed task while another person has a pending task and
\* the worker is in its loop, the worker gets every task of that other
\* person done or failed.
C17_NoStall ==
    /\ [][\A i \in Ids(tasks) :
             tasks[i].status = "failed" => tasks'[i].status = "failed"]_vars
    /\ \A p, q \in Persons :
          (/\ p # q
           /\ HasFailed(p)
           /\ HasPending(q)
           /\ workers[TheWorker].pc # "exited") ~> AllFinished(q)

\* the worker marked a task of one person failed and, in its next pass,
\* claimed a task of another person and got True from its handler
C17_Witness ==
    \E i, j \in Ids(tasks) :
        /\ workers[TheWorker].failed = i
        /\ tasks[i].status = "failed" /\ tasks[i].outcome = "RAISED"
        /\ workers[TheWorker].task = j
        /\ tasks[j].person_id # tasks[i].person_id
        /\ tasks[j].status = "done" /\ tasks[j].outcome = "TRUE"

\* the tasks in the hands of a worker whose handler call hangs
HungTasks == {workers[w].task : w \in {v \in Workers : workers[v].pc = "hung"}}

\* C19: a hung handler blocks only its own worker.  While a worker hangs,
\* its task stays in_progress and no worker's claim has come back empty
\* past a pending row that no other claim held; and when a worker hangs
\* while another worker is in its loop, the others get every other task
\* done or failed (unless none of them is left: each one hangs too, or has
\* returned from its loop on an empty queue).
C19_HangBlocksOnlyItsWorker ==
    /\ [](\A i \in HungTasks : tasks[i].status = "in_progress")
    /\ [](HungTasks # {} => \A w \in Workers : workers[w].missed = {})
    /\ (/\ HungTasks # {}
        /\ \E w \in Workers : workers[w].pc \notin {"hung", "exited"})
          ~> (\/ \A i \in Ids(tasks) \ HungTasks : tasks[i].status \in Terminal
              \/ \A w \in Workers : workers[w].pc \in {"hung", "exited"})

\* one worker hangs in a handler call; a task that was enqueued after the
\* call began to hang has been claimed by another worker and is done
C19_Witness ==
    \E h \in Workers, j \in Ids(tasks) :
        /\ workers[h].pc = "hung"
        /\ tasks[j].created_at > workers[h].at
        /\ tasks[j].status = "done"

\* the handler of task i has done its stage's work for the person without
\* raising: it returned, and the stage's completion flag is TRUE
WorkDone(i) ==
    /\ tasks[i].task_type \in TaskTypeSet
    /\ tasks[i].outcome \notin {NULL, "RAISED"}
    /\ persons[tasks[i].person_id][TASK_FLAGS[tasks[i].task_type]] = "TRUE"

\* C21: success advances every non-terminal stage.  Once the worker is
\* through with a task of prellm, llm, perp or postcheck1 whose handler did
\* its work without error, the task is done and the queue holds a row of the
\* same person for the successor stage.
C21_SuccessAdvances ==
    \A i \in Ids(tasks) :
        (/\ tasks[i].task_type \in {"prellm", "llm", "perp", "postcheck1"}
         /\ WorkDone(i)
         /\ \A w \in Workers : workers[w].task # i) =>
            /\ tasks[i].status = "done"
            /\ RowsOf(tasks, tasks[i].person_id,
                      NEXT_TASK[tasks[i].task_type]) # {}

\* C22: oldest-first claim.  A claim whose sub-select runs while no other
\* claim is in flight takes a pending task no pending task is older than;
\* the claim's UPDATE finds the task still pending, changes that row only,
\* to in_progress with started_at set, and hands the worker its id.
C22_OldestFirst ==
    [][\A w \in Workers :
          /\ (workers[w].pc = "fetch" /\ workers'[w].pc = "locked"
                 /\ Locked = {}) =>
                LET t == workers'[w].task
                IN  /\ t \in Ids(tasks)
                    /\ tasks[t].status = "pending"
                    /\ \A j \in Ids(tasks) :
                          tasks[j].status = "pending" =>
                             tasks[t].created_at <= tasks[j].created_at
          /\ (workers[w].pc = "locked" /\ workers'[w].pc = "run") =>
                LET t == workers[w].task
                IN  /\ tasks[t].status = "pending"
                    /\ workers'[w].task = t
                    /\ tasks' = [tasks EXCEPT ![t] =
                          [@ EXCEPT !.status = "in_progress",
                                    !.started_at = "SET",
                                    !.claims = tasks[t].claims + 1]]]_vars

\* the first claim of a run has taken the older of two pending tasks with
\* different created_at
C22_Witness ==
    \E w \in Workers, j \in Ids(tasks) :
        LET t == workers[w].task
        IN  /\ workers[w].pc = "run"
            /\ faults = 0
            /\ tasks[t].status = "in_progress" /\ tasks[t].started_at = "SET"
            /\ tasks[j].status = "pending"
            /\ tasks[j].created_at > tasks[t].created_at
            /\ \A k \in Ids(tasks) \ {t} : tasks[k].claims = 0
            /\ \A v \in Workers \ {w} : workers[v].task = NoTask

\* C23: uniqueness without overlap.  While no two enqueue operations
\* overlap in time, the queue holds at most one row per (person_id,
\* task_type), so at most one pending or in_progress row per pair.
C23_UniqueWithoutOverlap ==
    \A p \in Persons, t \in StageNames :
        /\ Cardinality(RowsOf(tasks, p, t)) <= 1
        /\ Cardinality({i \in RowsOf(tasks, p, t) :
              tasks[i].status \in {"pending", "in_progress"}}) <= 1

\* an add_for_person from outside came after a worker had enqueued the row
\* of the same person and stage, which has since finished, and added nothing
C23_Witness ==
    /\ last.op = "add" /\ last.error = NULL
    /\ last.after = last.before
    /\ \E j \in Ids(last.before) :
          /\ last.before[j].person_id = last.person
          /\ last.before[j].task_type = last.stage
          /\ last.before[j].creator # NoTask
          /\ last.before[j].status \in Terminal

\* C24: enqueue race.  An add_for_person whose NOT EXISTS check has passed
\* writes its row whatever has been committed since: the step of its insert
\* appends one pending row of its person and stage and changes no other row,
\* so a second row of a pair is not kept out.
C24_EnqueueRace ==
    [][/\ \A w \in Workers :
             (workers[w].pc = "insert" /\ workers'[w].pc # "insert") =>
                LET r == tasks[workers[w].task]
                    n == Len(tasks) + 1
                IN  /\ Len(tasks') = n
                    /\ SubSeq(tasks', 1, Len(tasks)) = tasks
                    /\ tasks'[n].person_id = r.person_id
                    /\ tasks'[n].task_type = NEXT_TASK[r.task_type]
                    /\ tasks'[n].status = "pending"
       /\ (populator.pc = "add_insert" /\ populator'.pc # "add_insert") =>
             LET n == Len(tasks) + 1
             IN  /\ Len(tasks') = n
                 /\ SubSeq(tasks', 1, Len(tasks)) = tasks
                 /\ tasks'[n].person_id = populator.person
                 /\ tasks'[n].task_type = populator.stage
                 /\ tasks'[n].status = "pending"]_vars

\* a worker's add_for_person and one called from outside ran for the same
\* person and stage, the check of the second to write was evaluated before
\* the first one's row was written, and the queue holds both rows (no
\* fill_all has inserted: a person is still without any row)
C24_Witness ==
    /\ \E q \in Persons : \A k \in Ids(tasks) : tasks[k].person_id # q
    /\ \E i, j \in Ids(tasks) :
          /\ i < j
          /\ tasks[i].person_id = tasks[j].person_id
          /\ tasks[i].task_type = tasks[j].task_type
          /\ (tasks[i].creator = NoTask) # (tasks[j].creator = NoTask)
          /\ tasks[j].created_at < i

\* C25: every task is created in the initial state.  Each row a step adds to
\* the queue is pending with retries 0 and last_error, started_at and
\* finished_at NULL, and its id is greater than the id of every row the
\* queue held before.
C25_CreatedInitial ==
    [][\A j \in Ids(tasks') \ Ids(tasks) :
          /\ tasks'[j].status = "pending"
          /\ tasks'[j].retries = 0
          /\ tasks'[j].last_error = NULL
          /\ tasks'[j].started_at = NULL
          /\ tasks'[j].finished_at = NULL
          /\ \A i \in Ids(tasks) : tasks'[j].id > tasks[i].id
          /\ \A k \in Ids(tasks') \ Ids(tasks) :
                k < j => tasks'[j].id > tasks'[k].id]_vars

\* fill_all has added a row to a queue that held a finished task and a
\* pending row a worker's add_for_person had added
C25_Witness ==
    /\ last.op = "fill"
    /\ Added(last) # {}
    /\ \E i, j \in Ids(last.before) :
          /\ last.before[i].status \in Terminal
          /\ j > i
          /\ last.before[j].creator # NoTask
          /\ last.before[j].status = "pending"

\* person p exists and satisfies the rule of stage t, and the queue q holds
\* no row of (p, t)
Due(q, p, t) ==
    /\ p \in Persons
    /\ TASK_RULES(t, persons[p])
    /\ RowsOf(q, p, t) = {}

\* C26: add_for_person applies the stage's eligibility predicate.  An
\* undisturbed add_for_person(p, t) for a registered stage raises nothing,
\* keeps every row, and adds a row exactly if p exists, satisfies the rule
\* of t and has no row of t, whatever the completion flag of t is.  The
\* add_for_person a worker calls after a handler returned True does the
\* same: it goes on to insert exactly in that case, and otherwise returns
\* with the queue and the task's status as they were.
C26_AddEligibility ==
    /\ []((last.op = "add" /\ last.stage \in TaskTypeSet) =>
             /\ last.error = NULL
             /\ KeptRows(last)
             /\ Added(last) # {} <=> Due(last.before, last.person, last.stage))
    /\ [][\A w \in Workers :
             (workers[w].pc = "create" /\ workers'[w].pc # "create") =>
                LET r == tasks[workers[w].task]
                    due == Due(tasks, r.person_id, NEXT_TASK[r.task_type])
                IN  /\ r.outcome = "TRUE"
                    /\ tasks' = tasks
                    /\ due => /\ workers'[w].pc = "insert"
                              /\ workers'[w].sel = {r.person_id}
                    /\ ~due => workers'[w] = IdleWorker]_vars

\* an add_for_person has inserted a row for a person whose completion flag
\* of the stage is TRUE; the call before it had returned without a row
C26_Witness ==
    /\ last.op = "add" /\ last.stage \in TaskTypeSet
    /\ Added(last) # {}
    /\ persons[last.person][TASK_FLAGS[last.stage]] = "TRUE"
    /\ populator.calls = MaxAdds
    /\ Len(tasks) = 1

\* C27: type-restricted claim.  The claim of task_worker.py never hands out
\* a task of another type than postcheck2, and no step of a claim, whether
\* it returns a task or none, changes a row of another type: such a row
\* that is pending stays pending.
C27_TypeRestrictedClaim ==
    /\ [](\A w \in Workers :
             workers[w].pc \in {"locked", "run"} =>
                tasks[workers[w].task].task_type = "postcheck2")
    /\ [][\A w \in Workers :
             (workers[w].pc \in {"fetch", "locked"} /\ workers'[w] # workers[w])
                => /\ Len(tasks') = Len(tasks)
                   /\ \A i \in Ids(tasks) :
                         tasks[i].task_type # "postcheck2" =>
                            tasks'[i] = tasks[i]]_vars

\* the claim has returned a postcheck2 task, now done, and after it has
\* returned no task, past a pending task of another type that is older
C27_Witness ==
    \E i, j \in Ids(tasks) :
        /\ tasks[i].task_type = "postcheck2" /\ tasks[i].status = "done"
        /\ j \in workers[TheWorker].missed
        /\ tasks[j].task_type # "postcheck2" /\ tasks[j].status = "pending"
        /\ tasks[j].created_at < tasks[i].created_at

C28_Bookkeeping ==
    \A i \in Ids(tasks) :
        /\ tasks[i].retries \in {0, 1}
        /\ tasks[i].retries = 1 <=> tasks[i].status = "failed"
        /\ tasks[i].status = "failed" <=> tasks[i].last_error # NULL

\* the queue holds a pending task, a done task and a task that was marked
\* done and then failed, when the add_for_person after it raised
C28_Witness ==
    \E i, j, l \in Ids(tasks) :
        /\ tasks[i].status = "pending"
        /\ tasks[j].status = "done"
        /\ tasks[l].status = "failed" /\ tasks[l].outcome = "TRUE"
        /\ tasks[l].last_error = "connection error"

\* C29: timestamps follow status.  started_at is set exactly when the task
\* is not pending, finished_at exactly when it is done or failed.
C29_Timestamps ==
    \A i \in Ids(tasks) :
        /\ tasks[i].started_at # NULL <=> tasks[i].status # "pending"
        /\ tasks[i].finished_at # NULL <=> tasks[i].status \in Terminal

\* the queue holds a pending task, a task in_progress, a done task and a
\* failed task
C29_Witness ==
    \E i, j, k, l \in Ids(tasks) :
        /\ tasks[i].status = "pending" /\ tasks[i].started_at = NULL
        /\ tasks[j].status = "in_progress" /\ tasks[j].finished_at = NULL
        /\ tasks[k].status = "done"
        /\ tasks[l].status = "failed"

\* the ids a row of the queue of a run of the whole chain can have: one row
\* per person and stage name
QueueIds == 1..(NumPersons * Cardinality(StageNames))

\* C31: the queue drains.  With the worker started, handlers that return
\* and a database that does not fail, every task that is pending is
\* eventually done or failed.
C31_QueueDrains ==
    \A i \in QueueIds :
        (i \in Ids(tasks) /\ tasks[i].status = "pending")
            ~> (i \in Ids(tasks) /\ tasks[i].status \in Terminal)

\* C32: a task is marked done only when its stage is complete on the person
\* record.  In the step that sets a task (P, stage) to done, the stage's
\* completion flag of P is TRUE.
C32_DoneOnlyWhenComplete ==
    [][\A i \in Ids(tasks) :
          (/\ tasks[i].status # "done"
           /\ tasks'[i].status = "done"
           /\ tasks[i].task_type \in TaskTypeSet) =>
              persons'[tasks[i].person_id][TASK_FLAGS[tasks[i].task_type]]
                 = "TRUE"]_vars

\* the texts of the failures a stage handler ends with: what its
\* collaborator raised, or the exception llm.run raises after the last
\* attempt
Failures == ErrTexts \cup {"llm failed"}

C34_DoneImpliesPostcheck2 ==
    /\ [](\A p \in Persons :
             persons[p].done = "TRUE" => persons[p].flag_postcheck2 = "TRUE")
    /\ [][\A w \in Workers :
             LET t == workers[w].task
                 p == tasks[t].person_id
                 stage == tasks[t].task_type
                 wrote == \/ persons[p].flag_postcheck1 = "TRUE"
                          \/ tasks'[t].outcome = "RAISED"
             IN  (workers[w].pc = "run" /\ tasks'[t].outcome # NULL) =>
                    /\ (stage = "postcheck2" /\ wrote) =>
                          /\ persons'[p].done = persons'[p].flag_postcheck2
                          /\ persons'[p].done \in {"TRUE", "FALSE"}
                    /\ (stage = "postcheck2" /\ ~wrote) =>
                          persons'[p] = persons[p]
                    /\ stage = "postcheck1" =>
                          /\ persons'[p].done \in {persons[p].done, "FALSE"}
                          /\ persons'[p].flag_postcheck2
                                = persons[p].flag_postcheck2
                    /\ stage \notin {"postcheck1", "postcheck2"} =>
                          /\ persons'[p].done = persons[p].done
                          /\ persons'[p].flag_postcheck2
                                = persons[p].flag_postcheck2]_vars

\* a person passed postcheck2 and a postcheck1 call that came after it
\* returned: done and flag_postcheck2 are both TRUE
C34_Witness ==
    \E i, j \in Ids(tasks) :
        /\ tasks[i].person_id = tasks[j].person_id
        /\ tasks[i].task_type = "postcheck2" /\ tasks[i].outcome = "TRUE"
        /\ tasks[j].task_type = "postcheck1" /\ tasks[j].outcome = "NONE"
        /\ tasks[j].status = "done"
        /\ tasks[i].created_at < tasks[j].created_at
        /\ persons[tasks[i].person_id].done = "TRUE"
        /\ persons[tasks[i].person_id].flag_postcheck2 = "TRUE"

\* the columns of task_queue (DROP_AND_CREATE_TASK_QUEUE_QUERY); the other
\* fields of a row of tasks are history fields
Columns ==
    {"id", "person_id", "task_type", "status", "created_at", "started_at",
     "finished_at", "retries", "last_error"}

\* rows r and s agree on every column outside cols
SameExcept(r, s, cols) == \A c \in Columns \ cols : r[c] = s[c]

\* C35: claim and completion touch one row.  No step changes the id,
\* person_id, task_type or created_at of a row, and no step changes the
\* columns of two rows.  A step of fetch_pending_task before its UPDATE
\* (the sub-select, a claim that returns no task, a claim that fails)
\* changes no row; its UPDATE changes only status and started_at of the row
\* it returns; a step of process_task after the claim changes only status,
\* finished_at, retries and last_error of the claimed task and no column of
\* any other row that existed.
C35_OneRowTouched ==
    [][/\ \A i \in Ids(tasks) :
             /\ i \in Ids(tasks')
             /\ SameExcept(tasks[i], tasks'[i],
                           {"status", "started_at", "finished_at", "retries",
                            "last_error"})
       /\ Cardinality({i \in Ids(tasks) :
                          ~SameExcept(tasks[i], tasks'[i], {})}) <= 1
       /\ \A w \in Workers :
             LET t == workers[w].task
             IN  /\ (workers[w].pc = "fetch" /\ workers'[w] # workers[w]) =>
                        tasks' = tasks
                 /\ (workers[w].pc = "locked" /\ workers'[w] # workers[w]) =>
                        /\ Len(tasks') = Len(tasks)
                        /\ \A i \in Ids(tasks) \ {t} : tasks'[i] = tasks[i]
                        /\ SameExcept(tasks[t], tasks'[t],
                                      {"status", "started_at"})
                        /\ IF workers'[w].pc = "run"
                           THEN tasks'[t].status = "in_progress"
                           ELSE tasks' = tasks
                 /\ (/\ workers[w].pc \in {"run", "create", "insert"}
                     /\ workers'[w] # workers[w]) =>
                        /\ \A i \in Ids(tasks) \ {t} : tasks'[i] = tasks[i]
                        /\ SameExcept(tasks[t], tasks'[t],
                                      {"status", "finished_at", "retries",
                                       "last_error"})
                        /\ workers[w].pc = "run" => Len(tasks') = Len(tasks)]_vars

\* one task was claimed and marked failed while another row, claimed by the
\* other worker, is in_progress with no finished_at, no retry and no error
C35_Witness ==
    \E i, j \in Ids(tasks) :
        /\ i # j
        /\ tasks[i].status = "failed" /\ tasks[i].retries = 1
        /\ tasks[i].started_at = "SET" /\ tasks[i].finished_at = "SET"
        /\ tasks[j].status = "in_progress" /\ tasks[j].started_at = "SET"
        /\ tasks[j].finished_at = NULL /\ tasks[j].retries = 0
        /\ tasks[j].last_error = NULL
        /\ \E w \in Workers : workers[w].pc = "run" /\ workers[w].task = j

(* ------------------------ the llm handler alone ----------------------- *)
\* llm.run(worker_id, p) is called and process_single_person reads the
\* person: attempt_llm_parse meets the answers llm.  The record of the call
\* keeps the answers, what attempt_llm_parse returned (success), how often
\* it called the language model (calls), the row its save left (saved), and
\* how run ended.
LlmAttempts(p) ==
    /\ last = NoCall
    /\ \E llm \in [1..MAX_RETRIES -> LlmAnswers] :
          LET r == attempt_llm_parse(llm, persons[p], 1)
              o == llm_run_on(llm, persons[p])
          IN  /\ persons' = [persons EXCEPT ![p] = o.row]
              /\ last' = [op |-> "llm", person |-> p, read |-> TRUE,
                          answers |-> llm, before |-> persons[p],
                          success |-> r.success, calls |-> r.calls,
                          saved |-> r.row, result |-> o.result,
                          error |-> o.error]
    /\ UNCHANGED <<tasks, workers, populator, faults>>

\* llm.run(worker_id, p) is called and the read of the person raises:
\* attempt_llm_parse is not called
LlmUnread(p) ==
    /\ last = NoCall
    /\ \E o \in llm_run_unread(persons[p]) :
          /\ persons' = [persons EXCEPT ![p] = o.row]
          /\ last' = [op |-> "llm", person |-> p, read |-> FALSE,
                      answers |-> <<>>, before |-> persons[p],
                      success |-> FALSE, calls |-> 0, saved |-> persons[p],
                      result |-> o.result, error |-> o.error]
    /\ UNCHANGED <<tasks, workers, populator, faults>>

NextLlm ==
    \/ \E p \in Persons : LlmAttempts(p)
    \/ \E p \in Persons : LlmUnread(p)

\* one call of llm.run on a found table
SpecLlm == InitFound /\ [][NextLlm]_vars

\* the attempts of the recorded call that gave a non-empty dict
Yielding ==
    {n \in 1..MAX_RETRIES : last.answers[n] \in {"valid", "invalid", "unsaved"}}

\* the attempts of the recorded call that gave a non-empty dict and saved it
Saving == {n \in 1..MAX_RETRIES : last.answers[n] \in {"valid", "invalid"}}

\* the smallest element of a non-empty set of numbers
First(S) == CHOOSE n \in S : \A m \in S : n <= m

\* attempt_llm_parse made between 1 and MAX_RETRIES calls; it returned True
\* exactly if some attempt in S happened, then after First(S) calls; it
\* returned False after MAX_RETRIES calls, the row as it was
StopsAtFirst(S) ==
    /\ last.calls \in 1..MAX_RETRIES
    /\ last.success <=> S # {}
    /\ last.success =>
          /\ last.calls = First(S)
          /\ last.saved = [last.before EXCEPT !.valid =
                              IF last.answers[last.calls] = "valid"
                              THEN "TRUE" ELSE "FALSE"]
    /\ ~last.success =>
          /\ last.calls = MAX_RETRIES
          /\ last.saved = last.before

\* llm.run returned True with flag_llm = TRUE after a success and raised
\* with flag_llm = FALSE otherwise; nothing else of the saved row changed
RunEnded ==
    /\ last.result = (IF last.success THEN "TRUE" ELSE "RAISED")
    /\ persons[last.person] =
          [last.saved EXCEPT !.flag_llm =
              IF last.success THEN "TRUE" ELSE "FALSE"]

====
